---------------------------- MODULE Spec2Model ----------------------------
(***************************************************************************)
(* Model of app.py, the "Skill Half-Life" Streamlit dashboard.             *)
(*                                                                         *)
(* A Streamlit script is re-executed from its first line to its last on    *)
(* every user interaction.  One execution is modelled as three steps:      *)
(*   Load     line 123      df = load_and_process_data()  (cached)         *)
(*   Sidebar  lines 128-153 the two pickers, df_filtered, the counts       *)
(*   Body     lines 155-656 the KPIs and the six visualizations            *)
(* The environment is the user (Rerun, with the picker values chosen) and  *)
(* whoever owns the file skill_half_life_ai.csv (ModifySource).            *)
(*                                                                         *)
(* Numbers are exact rationals n/d (the model's decimals are values that   *)
(* float64 represents and multiplies exactly), a missing cell is NaN, and  *)
(* a float division by zero gives +inf, -inf or NaN as numpy does.         *)
(* Category columns hold strings; numeric cells of the file are finite.    *)
(***************************************************************************)
EXTENDS Integers, Sequences, FiniteSets, TLC

VARIABLES
    source,       \* the file skill_half_life_ai.csv as it is on disk
    cache,        \* st.cache_data's entry for load_and_process_data: <<>> or <<frame>>
    sel,          \* the values the two pickers return in the current run
    pc,           \* position of the current script run
    df,           \* the script's df:          <<>> (unbound) or <<frame>>
    df_filtered,  \* the script's df_filtered: <<>> (unbound) or <<frame>>
    info,         \* the sidebar's "N of M records": <<>> or <<N, M>>
    err,          \* what the run showed the user as an error ("" for none)
    rendered,     \* the KPIs and visualizations the current run has rendered
    kpi           \* the values the four KPI tiles of the current run show

vars == <<source, cache, sel, pc, df, df_filtered, info, err, rendered, kpi>>

\* Largest number of data rows of a source file.
MaxRows == 2

-----------------------------------------------------------------------------
(* Floating-point cells.                                                   *)

Abs(x) == IF x < 0 THEN -x ELSE x

RECURSIVE Gcd(_, _)
Gcd(a, b) == IF b = 0 THEN a ELSE Gcd(b, a % b)

\* The finite number n/d (d > 0), in lowest terms.
Num(n, d) ==
    LET g == Gcd(Abs(n), d)
    IN  [k |-> "num", n |-> n \div g, d |-> d \div g]

NaN    == [k |-> "nan", n |-> 0, d |-> 1]
PosInf == [k |-> "inf", n |-> 1, d |-> 1]
NegInf == [k |-> "inf", n |-> -1, d |-> 1]

IsNaN(x) == x.k = "nan"
Sign(x) == IF x.n > 0 THEN 1 ELSE IF x.n < 0 THEN -1 ELSE 0

\* x < y on floats: false when either is NaN.
FLt(x, y) ==
    IF IsNaN(x) \/ IsNaN(y) THEN FALSE
    ELSE IF x.k = "inf" THEN x.n < 0 /\ y # NegInf
    ELSE IF y.k = "inf" THEN y.n > 0
    ELSE x.n * y.d < y.n * x.d

\* x <= y on floats: false when either is NaN.
FLe(x, y) == ~IsNaN(x) /\ ~IsNaN(y) /\ (x = y \/ FLt(x, y))

\* x * y: NaN propagates, inf * 0 is NaN.
FMul(x, y) ==
    IF IsNaN(x) \/ IsNaN(y) THEN NaN
    ELSE IF x.k = "inf" \/ y.k = "inf"
         THEN IF Sign(x) * Sign(y) > 0 THEN PosInf
              ELSE IF Sign(x) * Sign(y) < 0 THEN NegInf ELSE NaN
    ELSE Num(x.n * y.n, x.d * y.d)

\* x + y: NaN propagates, inf + -inf is NaN.
FAdd(x, y) ==
    IF IsNaN(x) \/ IsNaN(y) THEN NaN
    ELSE IF x.k = "inf" THEN IF y.k = "inf" /\ y # x THEN NaN ELSE x
    ELSE IF y.k = "inf" THEN y
    ELSE Num(x.n * y.d + y.n * x.d, x.d * y.d)

\* x / y: no exception is raised for y = 0, the quotient is then +-inf or NaN.
FDiv(x, y) ==
    IF IsNaN(x) \/ IsNaN(y) THEN NaN
    ELSE IF y.k = "inf" THEN IF x.k = "inf" THEN NaN ELSE Num(0, 1)
    ELSE IF y.n = 0
         THEN IF Sign(x) > 0 THEN PosInf ELSE IF Sign(x) < 0 THEN NegInf ELSE NaN
    ELSE IF x.k = "inf"
         THEN IF Sign(x) * Sign(y) > 0 THEN PosInf ELSE NegInf
    ELSE Num(Sign(y) * x.n * y.d, x.d * Abs(y.n))

-----------------------------------------------------------------------------
(* Frames.  A frame is [cols, index, rows]: the column names, the index    *)
(* labels (0, 1, ... as read_csv assigns them) and the rows, each a        *)
(* function from cols to cells.                                            *)

\* A missing cell of a categorical column.
AbsentCat == "NaN"

Range(s) == {s[i] : i \in 1..Len(s)}

\* BoolIndex returning the selected rows last to first.
BoolIndexReversed(f, mask) ==
    LET pos == SelectSeq([i \in 1..Len(f.rows) |-> i], LAMBDA i : mask[i])
        n == Len(pos)
    IN  [cols  |-> f.cols,
         index |-> [k \in 1..n |-> f.index[pos[n + 1 - k]]],
         rows  |-> [k \in 1..n |-> f.rows[pos[n + 1 - k]]]]

\* df[mask]: the rows whose mask entry is TRUE, with their index labels, in order.
BoolIndex(f, mask) ==
    LET pos == SelectSeq([i \in 1..Len(f.rows) |-> i], LAMBDA i : mask[i])
    IN  [cols  |-> f.cols,
         index |-> [k \in 1..Len(pos) |-> f.index[pos[k]]],
         rows  |-> [k \in 1..Len(pos) |-> f.rows[pos[k]]]]

\* df.copy(): a new frame equal to f.
Copy(f) == [cols |-> f.cols, index |-> f.index, rows |-> f.rows]

\* df[c] = vals: f with column c set, row by row, to the entries of vals.
WithColumn(f, c, vals) ==
    [cols  |-> f.cols \cup {c},
     index |-> f.index,
     rows  |-> [i \in 1..Len(f.rows) |->
                  [x \in f.cols \cup {c} |->
                      IF x = c THEN vals[i] ELSE f.rows[i][x]]]]

\* len(f)
NRows(f) == Len(f.rows)

-----------------------------------------------------------------------------
(* load_and_process_data                                                   *)

Missing == [kind |-> "missing", cols |-> {}, rows |-> <<>>]
Garbled == [kind |-> "garbled", cols |-> {}, rows |-> <<>>]

\* pd.read_csv on a parseable file.
ReadCsv(src) ==
    [cols  |-> src.cols,
     index |-> [i \in 1..Len(src.rows) |-> i - 1],
     rows  |-> src.rows]

\* AccelerationOf with the missing operand of a row read as 1 (a fillna).
AccelerationFilled(row) ==
    LET a == row["AI_Adoption_Rate"]
        b == row["Skill_Depreciation_Rate"]
    IN  FMul(IF IsNaN(a) THEN Num(1, 1) ELSE a, IF IsNaN(b) THEN Num(1, 1) ELSE b)

\* df['AI_Adoption_Rate'] * df['Skill_Depreciation_Rate'], one row.
AccelerationOf(row) == FMul(row["AI_Adoption_Rate"], row["Skill_Depreciation_Rate"])

\* Labels with the two middle labels exchanged.
LabelsSwapped == <<"Critical (<2y)", "Moderate (5-10y)", "High (2-5y)", "Low (>10y)">>

Bins == <<Num(0, 1), Num(2, 1), Num(5, 1), Num(10, 1), PosInf>>
Labels == <<"Critical (<2y)", "High (2-5y)", "Moderate (5-10y)", "Low (>10y)">>

\* InBin as pd.cut(..., right=False) would have it: intervals closed on the left.
InBinLeftClosed(x, i) == FLe(Bins[i], x) /\ FLt(x, Bins[i + 1])

\* Whether x falls in the i-th interval of pd.cut (right=True, the default).
InBin(x, i) == FLt(Bins[i], x) /\ FLe(x, Bins[i + 1])

\* pd.cut(x, bins, labels): the label of the interval holding x, NaN for none.
Cut(x) ==
    IF \E i \in 1..Len(Labels) : InBin(x, i)
    THEN Labels[CHOOSE i \in 1..Len(Labels) : InBin(x, i)]
    ELSE AbsentCat

UrgencyOf(row) == Cut(row["Years_to_50_Percent_Obsolescence"])

\* (df['Years_to_50_Percent_Obsolescence'] * 12) / df['Reskilling_Time_Months']
ViabilityOf(row) ==
    FDiv(FMul(row["Years_to_50_Percent_Obsolescence"], Num(12, 1)),
         row["Reskilling_Time_Months"])

AddAcceleration(f) ==
    IF "AI_Adoption_Rate" \in f.cols /\ "Skill_Depreciation_Rate" \in f.cols
    THEN WithColumn(f, "Acceleration_Index",
                    [i \in 1..NRows(f) |-> AccelerationOf(f.rows[i])])
    ELSE f

AddUrgency(f) ==
    IF "Years_to_50_Percent_Obsolescence" \in f.cols
    THEN WithColumn(f, "Urgency_Category",
                    [i \in 1..NRows(f) |-> UrgencyOf(f.rows[i])])
    ELSE f

AddViability(f) ==
    IF "Reskilling_Time_Months" \in f.cols
       /\ "Years_to_50_Percent_Obsolescence" \in f.cols
    THEN WithColumn(f, "Reskilling_Viability_Ratio",
                    [i \in 1..NRows(f) |-> ViabilityOf(f.rows[i])])
    ELSE f

\* The body of load_and_process_data on a parseable file.
Process(src) == AddViability(AddUrgency(AddAcceleration(ReadCsv(src))))

-----------------------------------------------------------------------------
(* The sidebar, lines 128-153.                                             *)

HasSectorFilter(f) == "Sector" \in f.cols \/ "Industry" \in f.cols

\* SectorCol preferring Industry when both columns exist.
SectorColIndustryFirst(f) == IF "Industry" \in f.cols THEN "Industry" ELSE "Sector"

\* sector_col
SectorCol(f) == IF "Sector" \in f.cols THEN "Sector" ELSE "Industry"

\* The options of a picker over column c: 'All' and the column's values (the
\* code sorts them; the order of the options decides nothing).
Options(f, c) == {"All"} \cup {f.rows[i][c] : i \in 1..NRows(f)}

SectorOptions(f) == IF HasSectorFilter(f) THEN Options(f, SectorCol(f)) ELSE {"All"}
CategoryOptions(f) ==
    IF "Skill_Category" \in f.cols THEN Options(f, "Skill_Category") ELSE {"All"}

\* f[f[c] == v]
FilterEq(f, c, v) == BoolIndex(f, [i \in 1..NRows(f) |-> f.rows[i][c] = v])

\* AfterSector with a dataset that has no sector column treated as matching nothing.
AfterSectorDropsAll(d, s) ==
    IF HasSectorFilter(d)
    THEN IF s # "All" THEN FilterEq(d, SectorCol(d), s) ELSE Copy(d)
    ELSE BoolIndex(d, [i \in 1..NRows(d) |-> FALSE])

\* df_filtered after lines 132-142.
AfterSector(d, s) ==
    IF HasSectorFilter(d)
    THEN IF s # "All" THEN FilterEq(d, SectorCol(d), s) ELSE Copy(d)
    ELSE Copy(d)

\* AfterCategory filtering df instead of df_filtered (the sector filter is lost).
AfterCategoryOnDf(d, v, c) ==
    IF "Skill_Category" \in d.cols /\ c # "All"
    THEN FilterEq(d, "Skill_Category", c)
    ELSE v

\* df_filtered after lines 145-150: d is df, v the frame lines 132-142 left.
AfterCategory(d, v, c) ==
    IF "Skill_Category" \in d.cols /\ c # "All"
    THEN FilterEq(v, "Skill_Category", c)
    ELSE v

\* df_filtered as the sidebar leaves it, for df = d and the picker values s.
SidebarView(d, s) == AfterCategory(d, AfterSector(d, s.sector), s.category)

\* Counts reporting len(df_filtered) twice.
CountsOfView(v, d) == <<NRows(v), NRows(v)>>

\* The two numbers of line 153.
Counts(v, d) == <<NRows(v), NRows(d)>>

-----------------------------------------------------------------------------
(* The KPI tiles, lines 216-256.                                           *)

KpiNames == {"KPI1", "KPI2", "KPI3", "KPI4"}

\* The value of a tile the run has not rendered, and the outcome of a
\* computation that raises instead of returning a value.
NotShown == [k |-> "none", n |-> 0, d |-> 1]
Raised   == [k |-> "raise", n |-> 0, d |-> 1]

\* v[c] as a sequence of cells.
Column(v, c) == [i \in 1..NRows(v) |-> v.rows[i][c]]

\* The cells pandas' reductions use: skipna drops the missing ones.
DropNa(s) == SelectSeq(s, LAMBDA x : ~IsNaN(x))

RECURSIVE FSum(_)
FSum(s) == IF s = <<>> THEN Num(0, 1) ELSE FAdd(Head(s), FSum(Tail(s)))

\* Series.mean(): NaN for a Series with no present value.
Mean(s) ==
    LET t == DropNa(s)
    IN  IF Len(t) = 0 THEN NaN ELSE FDiv(FSum(t), Num(Len(t), 1))

\* The k-th smallest entry of t (1 <= k <= Len(t)).
Kth(t, k) ==
    CHOOSE x \in Range(t) :
        /\ Cardinality({i \in 1..Len(t) : FLt(t[i], x)}) < k
        /\ Cardinality({i \in 1..Len(t) : FLe(t[i], x)}) >= k

\* Series.median(): NaN for a Series with no present value.
Median(s) ==
    LET t == DropNa(s)
        n == Len(t)
    IN  IF n = 0 THEN NaN
        ELSE IF n % 2 = 1 THEN Kth(t, (n + 1) \div 2)
        ELSE FDiv(FAdd(Kth(t, n \div 2), Kth(t, n \div 2 + 1)), Num(2, 1))

\* <Series>.sum() / len(df_filtered) * 100: the count is a numpy integer, so
\* the division is numpy's and 0 / 0 is NaN (with a warning), not an exception.
Pct(c, n) == FMul(FDiv(Num(c, 1), Num(n, 1)), Num(100, 1))

\* The value tile x shows for the view v (x's guard holds of v).
KpiValue(v, x) ==
    CASE x = "KPI1" -> Median(Column(v, "Years_to_50_Percent_Obsolescence"))
      [] x = "KPI2" ->
            Pct(Cardinality({i \in 1..NRows(v) :
                    v.rows[i]["Urgency_Category"] = "Critical (<2y)"}), NRows(v))
      [] x = "KPI3" -> Mean(Column(v, "Reskilling_Time_Months"))
      [] x = "KPI4" ->
            Pct(Cardinality({i \in 1..NRows(v) :
                    FLe(Num(1, 1), v.rows[i]["Reskilling_Viability_Ratio"])}), NRows(v))

-----------------------------------------------------------------------------
(* The body, lines 155-656: each KPI and visualization is rendered when    *)
(* the columns its guard names are in df_filtered.  Of the charts the      *)
(* model keeps the columns each one is given; what plotly draws is not     *)
(* modelled.                                                               *)

Guard ==
    [KPI1 |-> {"Years_to_50_Percent_Obsolescence"},
     KPI2 |-> {"Urgency_Category"},
     KPI3 |-> {"Reskilling_Time_Months"},
     KPI4 |-> {"Reskilling_Viability_Ratio"},
     Viz1 |-> {"Skill_Category", "Years_to_50_Percent_Obsolescence"},
     Viz2 |-> {"AI_Adoption_Rate", "Skill_Depreciation_Rate"},
     Viz3 |-> {"Urgency_Category"},
     Viz4 |-> {"Reskilling_Viability_Ratio", "Skill_Category"},
     Viz5 |-> {"Year", "Years_to_50_Percent_Obsolescence"},
     Viz6 |-> {"AI_Adoption_Rate", "Skill_Depreciation_Rate",
               "Reskilling_Time_Months"}]

Features(v) == {x \in DOMAIN Guard : Guard[x] \subseteq v.cols}

\* The columns a feature reads without a presence check of its own.
Reads ==
    [KPI1 |-> {"Years_to_50_Percent_Obsolescence"},
     KPI2 |-> {"Urgency_Category"},
     KPI3 |-> {"Reskilling_Time_Months"},
     KPI4 |-> {"Reskilling_Viability_Ratio"},
     Viz1 |-> {"Skill_Category", "Years_to_50_Percent_Obsolescence"},
     Viz2 |-> {"AI_Adoption_Rate", "Skill_Depreciation_Rate"},
     Viz3 |-> {"Urgency_Category"},
     Viz4 |-> {"Reskilling_Viability_Ratio", "Skill_Category",
               "Reskilling_Time_Months", "Years_to_50_Percent_Obsolescence"},
     Viz5 |-> {"Year", "Years_to_50_Percent_Obsolescence"},
     Viz6 |-> {"AI_Adoption_Rate", "Skill_Depreciation_Rate",
               "Reskilling_Time_Months", "Years_to_50_Percent_Obsolescence"}]

\* The features in the order the script reaches them.
Order == <<"KPI1", "KPI2", "KPI3", "KPI4",
           "Viz1", "Viz2", "Viz3", "Viz4", "Viz5", "Viz6">>

\* Whether feature x, reached with frame v, raises: on a column that is not
\* there, or in the computation of its value.
Raises(v, x) ==
    /\ x \in Features(v)
    /\ IF ~(Reads[x] \subseteq v.cols) THEN TRUE
       ELSE x \in KpiNames /\ KpiValue(v, x) = Raised

\* The features rendered before the first one that raises, if any does.
RenderedOf(v) ==
    {Order[i] : i \in {j \in 1..Len(Order) :
                          /\ Order[j] \in Features(v)
                          /\ \A h \in 1..j : ~Raises(v, Order[h])}}

BodyRaises(v) == \E x \in DOMAIN Guard : Raises(v, x)

\* The tiles' values: NotShown for a tile the run does not reach.
KpisOf(v) ==
    [x \in KpiNames |-> IF x \in RenderedOf(v) THEN KpiValue(v, x) ELSE NotShown]

NoKpis == [x \in KpiNames |-> NotShown]

-----------------------------------------------------------------------------
(* The source files the model draws from.                                  *)

YearsVals ==
    {NaN, Num(-1, 1), Num(0, 1), Num(3, 2), Num(2, 1), Num(5, 2),
     Num(5, 1), Num(7, 1), Num(10, 1), Num(15, 1)}
RatioYears  == {NaN, Num(-1, 1), Num(0, 1), Num(2, 1)}
MonthsVals  == {NaN, Num(0, 1), Num(5, 1), Num(12, 1)}
AdoptionVals     == {NaN, Num(1, 2), Num(3, 1)}
DepreciationVals == {NaN, Num(1, 4), Num(2, 1)}
SectorVals   == {"IT", "Health"}
IndustryVals == {"IT", "Retail"}
CategoryVals == {"Tech", "Soft", "All"}

\* The parseable files with columns cs and 1..MaxRows rows drawn from rowset.
TablesOf(cs, rowset) ==
    {[kind |-> "table", cols |-> cs, rows |-> r] :
        r \in UNION {[1..n -> rowset] : n \in 1..MaxRows}}

\* Files over one column, and over two columns.
Tables1(c, A) == TablesOf({c}, {(c :> a) : a \in A})
Tables2(c1, A, c2, B) ==
    TablesOf({c1, c2}, {(c1 :> a) @@ (c2 :> b) : a \in A, b \in B})

UrgencyFiles == Tables1("Years_to_50_Percent_Obsolescence", YearsVals)

ViabilityFiles ==
    Tables2("Years_to_50_Percent_Obsolescence", RatioYears,
            "Reskilling_Time_Months", MonthsVals)
    \cup Tables1("Reskilling_Time_Months", MonthsVals)

AccelerationFiles ==
    Tables2("AI_Adoption_Rate", AdoptionVals,
            "Skill_Depreciation_Rate", DepreciationVals)
    \cup Tables1("AI_Adoption_Rate", AdoptionVals)
    \cup Tables1("Skill_Depreciation_Rate", DepreciationVals)

FilterFiles ==
    Tables2("Sector", SectorVals, "Skill_Category", CategoryVals)
    \cup Tables1("Sector", SectorVals)
    \cup Tables1("Skill_Category", CategoryVals)
    \cup Tables1("Industry", IndustryVals)
    \cup Tables2("Sector", SectorVals, "Industry", IndustryVals)

\* The columns the script knows by name.
Recognised ==
    {"Sector", "Industry", "Skill_Category", "AI_Adoption_Rate",
     "Skill_Depreciation_Rate", "Years_to_50_Percent_Obsolescence",
     "Reskilling_Time_Months", "Year"}

\* Two records whose sector and category never co-occur, over every column.
RecordA ==
    [Sector |-> "IT", Industry |-> "Retail", Skill_Category |-> "Tech",
     AI_Adoption_Rate |-> Num(1, 2), Skill_Depreciation_Rate |-> Num(2, 1),
     Years_to_50_Percent_Obsolescence |-> Num(1, 1),
     Reskilling_Time_Months |-> Num(12, 1), Year |-> Num(2024, 1)]
RecordB ==
    [Sector |-> "Health", Industry |-> "IT", Skill_Category |-> "Soft",
     AI_Adoption_Rate |-> Num(3, 1), Skill_Depreciation_Rate |-> Num(1, 4),
     Years_to_50_Percent_Obsolescence |-> Num(7, 1),
     Reskilling_Time_Months |-> Num(0, 1), Year |-> Num(2025, 1)]

\* For every subset of the recognised columns, the file holding the two
\* records cut down to those columns.
SchemaFiles ==
    {[kind |-> "table", cols |-> cs,
      rows |-> << [c \in cs |-> RecordA[c]], [c \in cs |-> RecordB[c]] >>] :
        cs \in SUBSET Recognised}

\* The file a missing or unparseable source is replaced by, and an edit of any file.
SeedTable ==
    [kind |-> "table", cols |-> {"Sector", "Skill_Category"},
     rows |-> << ("Sector" :> "IT")  @@ ("Skill_Category" :> "Tech"),
                 ("Sector" :> "Health") @@ ("Skill_Category" :> "Soft") >>]

Sources ==
    {Missing, Garbled} \cup UrgencyFiles \cup ViabilityFiles
    \cup AccelerationFiles \cup FilterFiles \cup SchemaFiles

-----------------------------------------------------------------------------
(* The state machine.                                                      *)

NoSelection == [sector |-> "All", category |-> "All"]

Init ==
    /\ source \in Sources
    /\ cache = <<>>
    /\ sel = NoSelection
    /\ pc = "load"
    /\ df = <<>>
    /\ df_filtered = <<>>
    /\ info = <<>>
    /\ err = ""
    /\ rendered = {}
    /\ kpi = NoKpis

\* CallLoad caching the frame as read, before the derived columns are added.
CallLoadCachesRaw(c, src) ==
    IF c # <<>>
    THEN [cache |-> c, df |-> c, err |-> ""]
    ELSE IF src.kind = "missing"
    THEN [cache |-> <<>>, df |-> <<>>, err |-> "not found"]
    ELSE IF src.kind = "garbled"
    THEN [cache |-> <<>>, df |-> <<>>, err |-> "exception"]
    ELSE [cache |-> <<ReadCsv(src)>>, df |-> <<Process(src)>>, err |-> ""]

\* What load_and_process_data() does, given the cache entry c and the file src:
\* the new cache entry, the value returned (<<>> when none is), the error shown.
CallLoad(c, src) ==
    IF c # <<>>
    THEN [cache |-> c, df |-> c, err |-> ""]
    ELSE IF src.kind = "missing"
    THEN [cache |-> <<>>, df |-> <<>>, err |-> "not found"]
    ELSE IF src.kind = "garbled"
    THEN [cache |-> <<>>, df |-> <<>>, err |-> "exception"]
    ELSE [cache |-> <<Process(src)>>, df |-> <<Process(src)>>, err |-> ""]

\* Line 123.  st.stop() and an uncaught exception both end the run.
Load ==
    /\ pc = "load"
    /\ LET r == CallLoad(cache, source)
       IN  /\ cache' = r.cache
           /\ df' = r.df
           /\ err' = r.err
           /\ pc' = IF r.df = <<>> THEN "stopped" ELSE "sidebar"
    /\ UNCHANGED <<source, sel, df_filtered, info, rendered, kpi>>

\* Sidebar filtering df in place: df is rebound to the filtered frame.
SidebarInPlace ==
    /\ pc = "sidebar"
    /\ df_filtered' = <<SidebarView(df[1], sel)>>
    /\ df' = <<SidebarView(df[1], sel)>>
    /\ info' = Counts(SidebarView(df[1], sel), df[1])
    /\ pc' = "body"
    /\ UNCHANGED <<source, cache, sel, err, rendered, kpi>>

\* Lines 128-153.
Sidebar ==
    /\ pc = "sidebar"
    /\ df_filtered' = <<SidebarView(df[1], sel)>>
    /\ info' = Counts(SidebarView(df[1], sel), df[1])
    /\ pc' = "body"
    /\ UNCHANGED <<source, cache, sel, df, err, rendered, kpi>>

\* Lines 155-656.
Body ==
    /\ pc = "body"
    /\ rendered' = RenderedOf(df_filtered[1])
    /\ kpi' = KpisOf(df_filtered[1])
    /\ err' = IF BodyRaises(df_filtered[1]) THEN "exception" ELSE err
    /\ pc' = IF BodyRaises(df_filtered[1]) THEN "stopped" ELSE "done"
    /\ UNCHANGED <<source, cache, sel, df, df_filtered, info>>

\* The user changes a picker (or asks for a rerun): the script runs again from
\* its first line, with the pickers returning the chosen options.
Rerun ==
    /\ pc \in {"done", "stopped"}
    /\ \E s \in (IF df # <<>> THEN SectorOptions(df[1]) ELSE {"All"}),
          c \in (IF df # <<>> THEN CategoryOptions(df[1]) ELSE {"All"}) :
            sel' = [sector |-> s, category |-> c]
    /\ pc' = "load"
    /\ df' = <<>>
    /\ df_filtered' = <<>>
    /\ info' = <<>>
    /\ err' = ""
    /\ rendered' = {}
    /\ kpi' = NoKpis
    /\ UNCHANGED <<source, cache>>

\* The files an edit of src can leave: src without its last data row.
Edited(src) ==
    IF src.kind = "table" /\ Len(src.rows) >= 2
    THEN {[src EXCEPT !.rows = SubSeq(src.rows, 1, Len(src.rows) - 1)]}
    ELSE {}

\* The file is deleted, overwritten with something unparseable, replaced or edited.
ModifySource ==
    /\ \E f \in {Missing, Garbled, SeedTable} \cup Edited(source) :
          /\ f # source
          /\ source' = f
    /\ UNCHANGED <<cache, sel, pc, df, df_filtered, info, err, rendered, kpi>>

Next == Load \/ Sidebar \/ Body \/ Rerun \/ ModifySource

Spec == Init /\ [][Next]_vars

-----------------------------------------------------------------------------
(* Vocabulary of the properties.                                           *)

YEARS  == "Years_to_50_Percent_Obsolescence"
MONTHS == "Reskilling_Time_Months"

Loaded == cache # <<>>
ViewReady == df_filtered # <<>>

\* Comparisons of a cell with an integer; all are false of a missing cell.
Gt(v, m) == v.k = "num" /\ v.n > m * v.d
Le(v, m) == v.k = "num" /\ v.n <= m * v.d
Is(v, m) == v.k = "num" /\ v.n = m * v.d

\* The index labels of the rows of d that satisfy the selection s, stated row by row.
SectorOk(d, s, i) ==
    ("Sector" \in d.cols \/ "Industry" \in d.cols) /\ s.sector # "All"
        => d.rows[i][IF "Sector" \in d.cols THEN "Sector" ELSE "Industry"] = s.sector
CategoryOk(d, s, i) ==
    "Skill_Category" \in d.cols /\ s.category # "All"
        => d.rows[i]["Skill_Category"] = s.category
Matching(d, s) ==
    {d.index[i] : i \in {j \in 1..NRows(d) : SectorOk(d, s, j) /\ CategoryOk(d, s, j)}}

SectorActive(d)   == HasSectorFilter(d) /\ sel.sector # "All"
CategoryActive(d) == "Skill_Category" \in d.cols /\ sel.category # "All"

-----------------------------------------------------------------------------
(* C1.  A row of the loaded dataset is in the filtered view iff its value  *)
(* equals the selected value in every column with an active selection;     *)
(* two active selections give the intersection of the two single-selection *)
(* views; with every selection the wildcard the view holds every row.      *)
C1_FilterSemantics ==
    ViewReady =>
        LET d == df[1]
            v == df_filtered[1]
            onlySector   == SidebarView(d, [sel EXCEPT !.category = "All"])
            onlyCategory == SidebarView(d, [sel EXCEPT !.sector = "All"])
        IN  /\ \A i \in 1..NRows(d) :
                  d.index[i] \in Range(v.index)
                      <=> SectorOk(d, sel, i) /\ CategoryOk(d, sel, i)
            /\ \A k \in 1..NRows(v) :
                  \E i \in 1..NRows(d) :
                      d.index[i] = v.index[k] /\ d.rows[i] = v.rows[k]
            /\ Range(v.index) = Range(onlySector.index) \cap Range(onlyCategory.index)
            /\ (sel = NoSelection => v.index = d.index /\ v.rows = d.rows)

\* Both pickers active; each removes a row the other keeps, and a row is left.
C1_Witness ==
    /\ ViewReady
    /\ SectorActive(df[1]) /\ CategoryActive(df[1])
    /\ NRows(df_filtered[1]) = 1
    /\ NRows(SidebarView(df[1], [sel EXCEPT !.category = "All"])) = 2
    /\ NRows(df[1]) = 2

-----------------------------------------------------------------------------
(* C2.  When the years column exists every row gets exactly one urgency    *)
(* category, by intervals open below and closed above: (0,2] Critical,     *)
(* (2,5] High, (5,10] Moderate, above 10 Low, and none for a value <= 0 or *)
(* missing.                                                                *)
C2_UrgencyBins ==
    Loaded =>
        LET d == cache[1]
        IN  /\ "Urgency_Category" \in d.cols <=> YEARS \in d.cols
            /\ YEARS \in d.cols =>
                 \A i \in 1..NRows(d) :
                     LET v == d.rows[i][YEARS]
                         u == d.rows[i]["Urgency_Category"]
                     IN  /\ Gt(v, 0) /\ Le(v, 2)  => u = "Critical (<2y)"
                         /\ Gt(v, 2) /\ Le(v, 5)  => u = "High (2-5y)"
                         /\ Gt(v, 5) /\ Le(v, 10) => u = "Moderate (5-10y)"
                         /\ Gt(v, 10)             => u = "Low (>10y)"
                         /\ Le(v, 0) \/ IsNaN(v)  => u = AbsentCat
                         /\ Cardinality({b \in 1..Len(Labels) : InBin(v, b)}) <= 1

\* A loaded dataset with rows on the boundaries 5 and 10.
C2_Witness ==
    /\ Loaded
    /\ YEARS \in cache[1].cols
    /\ \E i, j \in 1..NRows(cache[1]) :
          /\ Is(cache[1].rows[i][YEARS], 5)
          /\ cache[1].rows[i]["Urgency_Category"] = "High (2-5y)"
          /\ Is(cache[1].rows[j][YEARS], 10)
          /\ cache[1].rows[j]["Urgency_Category"] = "Moderate (5-10y)"

-----------------------------------------------------------------------------
-----------------------------------------------------------------------------
(* C4.  Acceleration_Index exists iff both AI_Adoption_Rate and            *)
(* Skill_Depreciation_Rate exist; in each row it is present exactly when   *)
(* both operands of that row are present, and is then their product.       *)
C4_AccelerationIndex ==
    Loaded =>
        LET d == cache[1]
        IN  /\ "Acceleration_Index" \in d.cols
                  <=> "AI_Adoption_Rate" \in d.cols /\ "Skill_Depreciation_Rate" \in d.cols
            /\ "Acceleration_Index" \in d.cols =>
                 \A i \in 1..NRows(d) :
                     LET a == d.rows[i]["AI_Adoption_Rate"]
                         b == d.rows[i]["Skill_Depreciation_Rate"]
                         x == d.rows[i]["Acceleration_Index"]
                     IN  /\ ~IsNaN(x) <=> ~IsNaN(a) /\ ~IsNaN(b)
                         /\ ~IsNaN(x) =>
                               /\ x.k = "num"
                               /\ x.n * (a.d * b.d) = (a.n * b.n) * x.d

\* A loaded dataset with one row whose product is present and one whose is not.
C4_Witness ==
    /\ Loaded
    /\ "Acceleration_Index" \in cache[1].cols
    /\ \E i, j \in 1..NRows(cache[1]) :
          /\ cache[1].rows[i]["Acceleration_Index"] = Num(3, 4)
          /\ IsNaN(cache[1].rows[j]["Acceleration_Index"])
          /\ ~IsNaN(cache[1].rows[j]["AI_Adoption_Rate"])

-----------------------------------------------------------------------------
(* C5.  Reskilling_Viability_Ratio exists iff both the years and the       *)
(* months column exist; a row with present, non-zero months has the ratio  *)
(* years * 12 / months; a row whose months are missing or exactly zero has *)
(* a missing ratio (not infinite).                                         *)
C5_ViabilityRatio ==
    Loaded =>
        LET d == cache[1]
        IN  /\ "Reskilling_Viability_Ratio" \in d.cols
                  <=> YEARS \in d.cols /\ MONTHS \in d.cols
            /\ "Reskilling_Viability_Ratio" \in d.cols =>
                 \A i \in 1..NRows(d) :
                     LET y == d.rows[i][YEARS]
                         m == d.rows[i][MONTHS]
                         r == d.rows[i]["Reskilling_Viability_Ratio"]
                     IN  /\ ~IsNaN(m) /\ ~Is(m, 0) /\ ~IsNaN(y) =>
                               /\ r.k = "num"
                               /\ r.n * (y.d * m.n) = (y.n * 12 * m.d) * r.d
                         /\ IsNaN(m) \/ Is(m, 0) => IsNaN(r)

-----------------------------------------------------------------------------
(* C6.  When the source is missing or unparseable, load shows the user an  *)
(* error and the run halts at the load step: no dataset is bound and no    *)
(* later step of that run executes.                                        *)
C6_LoadFailureHalts ==
    [][ pc = "load" /\ pc' # "load" /\ source.kind # "table"
            => pc' = "stopped" /\ err' # "" /\ df' = <<>> ]_vars

-----------------------------------------------------------------------------
(* C7.  After load the loaded dataset is unchanged by any sequence of      *)
(* picker selections and reruns: every run binds the dataset of the first  *)
(* successful load, and the view of a run is determined by that dataset    *)
(* and the run's selection alone.                                          *)
C7_DatasetUnchanged ==
    /\ [][Loaded => cache' = cache]_vars
    /\ [](df # <<>> => df = cache)
    /\ [](ViewReady =>
            /\ Range(df_filtered[1].index) = Matching(cache[1], sel)
            /\ df_filtered[1].cols = cache[1].cols)

\* A run that has filtered rows away while the source on disk is no longer the
\* file the dataset was loaded from.
C7_Witness ==
    /\ ViewReady
    /\ NRows(df_filtered[1]) < NRows(df[1])
    /\ source.kind = "missing"

-----------------------------------------------------------------------------
(* C8.  The reported matched count is the number of rows of the filtered   *)
(* view and the reported total is the number of rows of the loaded         *)
(* dataset; matched <= total, with equality when every selection is the    *)
(* wildcard.                                                               *)
C8_Counts ==
    info # <<>> =>
        /\ info[1] = Cardinality(Matching(cache[1], sel))
        /\ info[1] = NRows(df_filtered[1])
        /\ info[2] = NRows(cache[1])
        /\ info[1] <= info[2]
        /\ (sel = NoSelection => info[1] = info[2])

\* "1 of 2 records".
C8_Witness == info = <<1, 2>>

-----------------------------------------------------------------------------
(* C9.  Filtering is stable: two rows of the view are in the order they    *)
(* have in the loaded dataset, and no row appears twice.                   *)
C9_StableOrder ==
    ViewReady =>
        LET d == df[1]
            v == df_filtered[1]
            PosIn(l) == CHOOSE i \in 1..NRows(d) : d.index[i] = l
        IN  \A j, k \in 1..NRows(v) :
                j < k => /\ v.index[j] # v.index[k]
                         /\ PosIn(v.index[j]) < PosIn(v.index[k])

\* Two active selections that keep two rows.
C9_Witness ==
    /\ ViewReady
    /\ SectorActive(df[1]) /\ CategoryActive(df[1])
    /\ NRows(df_filtered[1]) = 2

-----------------------------------------------------------------------------
(* C10.  A filter dimension whose column is not in the dataset is ignored  *)
(* without error: with neither Sector nor Industry the sector filter       *)
(* removes no row, without Skill_Category the category filter removes no   *)
(* row, and the other filter decides the view alone.                       *)
C10_AbsentDimension ==
    ViewReady =>
        LET d == df[1]
            v == df_filtered[1]
            ByCategory == {d.index[i] : i \in {j \in 1..NRows(d) :
                              sel.category # "All"
                                  => d.rows[j]["Skill_Category"] = sel.category}}
            BySector == {d.index[i] : i \in {j \in 1..NRows(d) :
                              sel.sector # "All"
                                  => d.rows[j][SectorCol(d)] = sel.sector}}
        IN  /\ pc = "body" => err = ""
            /\ ~HasSectorFilter(d) /\ "Skill_Category" \in d.cols
                  => Range(v.index) = ByCategory
            /\ HasSectorFilter(d) /\ "Skill_Category" \notin d.cols
                  => Range(v.index) = BySector
            /\ ~HasSectorFilter(d) /\ "Skill_Category" \notin d.cols
                  => v.index = d.index

\* No sector column, and the category picker keeps one row of two.
C10_Witness ==
    /\ ViewReady
    /\ ~HasSectorFilter(df[1])
    /\ CategoryActive(df[1])
    /\ NRows(df_filtered[1]) = 1
    /\ NRows(df[1]) = 2

-----------------------------------------------------------------------------
(* C11.  When the active selections match no row the view is empty with    *)
(* matched count 0, no error is shown, and the KPIs and the charts of the  *)
(* run all complete: the run ends with every feature whose guard holds     *)
(* rendered.                                                               *)
C11_EmptyViewCompletes ==
    ViewReady /\ NRows(df_filtered[1]) = 0 =>
        /\ info = <<0, NRows(df[1])>>
        /\ err = ""
        /\ pc # "stopped"
        /\ pc = "done" =>
              /\ rendered = Features(df_filtered[1])
              /\ \A x \in KpiNames : kpi[x] # Raised

-----------------------------------------------------------------------------
(* C12.  When the source content has changed after a first load and the    *)
(* script is rerun, the dataset that run uses is derived from the changed  *)
(* source: every load that returns a dataset returns the one derived from  *)
(* the file as it then is.                                                 *)
C12_RerunReloads ==
    [][ pc = "load" /\ pc' = "sidebar" /\ source.kind = "table"
            => df' = <<Process(source)>> ]_vars

-----------------------------------------------------------------------------
(* C13.  For every subset of the recognised columns, every KPI and         *)
(* visualization either finds every column it reads in the dataset or is   *)
(* skipped, and no run ends in an error for a missing column.              *)
C13_PresenceChecked ==
    ViewReady =>
        /\ \A x \in Features(df_filtered[1]) : Reads[x] \subseteq df_filtered[1].cols
        /\ pc # "stopped"

-----------------------------------------------------------------------------
(* C14.  Load is idempotent: what a load returns is what the cache keeps   *)
(* for the next call, and a load on a source whose content is the content  *)
(* the cached dataset was derived from (or with nothing cached) returns    *)
(* the dataset derived from that content, rows, order, columns and derived *)
(* values alike.                                                           *)
C14_LoadIdempotent ==
    [][ pc = "load" /\ pc' = "sidebar" =>
            /\ cache' = df'
            /\ source.kind = "table" /\ cache \in {<<>>, <<Process(source)>>}
                  => df' = <<Process(source)>> ]_vars

\* A later run, served from the cache, on the unchanged source of a dataset
\* with derived columns.
C14_Witness ==
    /\ pc = "sidebar"
    /\ sel # NoSelection
    /\ source.kind = "table"
    /\ df = <<Process(source)>>
    /\ "Reskilling_Viability_Ratio" \in df[1].cols

-----------------------------------------------------------------------------
(* C15.  Selecting in a picker an option that is a value occurring in the  *)
(* picker's column restricts the view to rows holding that value, also     *)
(* when the value is the string "All".                                     *)
C15_WildcardDistinct ==
    ViewReady =>
        LET d == df[1]
            v == df_filtered[1]
        IN  /\ "Skill_Category" \in d.cols
               /\ sel.category \in {d.rows[i]["Skill_Category"] : i \in 1..NRows(d)}
                  => \A k \in 1..NRows(v) : v.rows[k]["Skill_Category"] = sel.category
            /\ HasSectorFilter(d)
               /\ sel.sector \in {d.rows[i][SectorCol(d)] : i \in 1..NRows(d)}
                  => \A k \in 1..NRows(v) : v.rows[k][SectorCol(d)] = sel.sector

-----------------------------------------------------------------------------
(* C16.  One sector dimension is filtered: the picker's options and the    *)
(* filter use Sector whenever it exists and Industry only when Sector does *)
(* not; with both columns the view is decided by Sector (and the category  *)
(* picker) alone.                                                          *)
C16_OneSectorDimension ==
    ViewReady /\ ("Sector" \in df[1].cols \/ "Industry" \in df[1].cols) =>
        LET d == df[1]
            v == df_filtered[1]
            col == IF "Sector" \in d.cols THEN "Sector" ELSE "Industry"
        IN  /\ sel.sector \in {"All"} \cup {d.rows[i][col] : i \in 1..NRows(d)}
            /\ Range(v.index) =
                  {d.index[i] : i \in {j \in 1..NRows(d) :
                      /\ sel.sector = "All" \/ d.rows[j][col] = sel.sector
                      /\ CategoryOk(d, sel, j)}}

\* Both columns exist and the chosen sector is also an Industry value of a row
\* the view leaves out, while the row kept has another Industry.
C16_Witness ==
    /\ ViewReady
    /\ {"Sector", "Industry"} \subseteq df[1].cols
    /\ sel.sector # "All"
    /\ NRows(df_filtered[1]) = 1
    /\ df_filtered[1].rows[1]["Industry"] # sel.sector
    /\ \E i \in 1..NRows(df[1]) :
          /\ df[1].rows[i]["Industry"] = sel.sector
          /\ df[1].index[i] \notin Range(df_filtered[1].index)

=============================================================================
